---- MODULE Spec2Model ----
(***************************************************************************)
(* A model of the bptree B+tree engine: leaf and internal nodes            *)
(* (src/src/node.rs), the coordinator, page allocator, paged file and      *)
(* metadata sidecar (src/src/lib.rs).                                      *)
(*                                                                         *)
(* Vectors are sequences; the code's 0-based index i is position i+1.      *)
(* Option<T> is a sequence of length 0 (None) or 1 (Some).                 *)
(***************************************************************************)
EXTENDS Integers, Sequences, FiniteSets, TLC

\* ---------------------------------------------------------------- bounds

\* A history of Spec is an ascending fill, set(FillStep * i, 1) for i = 1..n
\* with n <= MaxFill (the way the tests build their trees), followed by at
\* most MaxOps calls of set or remove with any key of 1..MaxKey, in any order.
\* The i-th of these calls, when a set, writes the value i + 1: an overwrite
\* always changes the value.
MaxFill == 10
FillStep == 2
MaxOps == 3
MaxKey == 21
\* The max_key_count handed to open().
Mkc == 3
\* A history of SpecP is made of at most MaxBulk bulk calls (set of the next
\* key above all stored ones, remove of the largest stored key) and at most
\* MaxDrops drops of the tree, each followed by open() on the same directory.
MaxBulk == 16
MaxDrops == 2
\* A history of SpecD is made of at most MaxDeep calls.
MaxDeep == 18
\* SpecS builds trees for key types of 1..MaxKeySize bytes and value types
\* of 1..MaxValueSize bytes.
MaxKeySize == 16
MaxValueSize == 16
\* A history of SpecF holds at most MaxFormat bulk sets; a damaged tag byte is
\* one of 2..MaxTag.
MaxFormat == 6
MaxTag == 3

Keys == 1..MaxKey

\* ---------------------------------------------------------------- options, vectors

None == <<>>
Some(x) == <<x>>
IsSome(o) == Len(o) = 1
Unwrap(o) == o[1]

At(s, i) == s[i + 1]
SetAt(s, i, x) == [s EXCEPT ![i + 1] = x]
\* Vec::insert(i, x)
InsertAt(s, i, x) == SubSeq(s, 1, i) \o <<x>> \o SubSeq(s, i + 1, Len(s))
\* Vec::remove(i)
RemoveAt(s, i) == SubSeq(s, 1, i) \o SubSeq(s, i + 2, Len(s))
\* &v[i..]
From(s, i) == SubSeq(s, i + 1, Len(s))
\* v.drain(i..) leaves v[..i]
Upto(s, i) == SubSeq(s, 1, i)
\* Vec::pop leaves all but the last
Init_(s) == SubSeq(s, 1, Len(s) - 1)
Last(s) == s[Len(s)]

IsSorted(s) == \A a, b \in 1..Len(s) : a < b => s[a] < s[b]

\* slice::binary_search. On a sorted slice: Ok(i) with s[i] = x, or Err(i)
\* with i the insertion point.  On an unsorted slice std leaves the result
\* unspecified: `luck` chooses between the two kinds of outcome a build can
\* produce (the element is hit, or it is missed).
BinarySearchL(s, x, luck) ==
    LET hits == {j \in 1..Len(s) : s[j] = x}
        less == Cardinality({j \in 1..Len(s) : s[j] < x})
    IN  IF hits # {} /\ (IsSorted(s) \/ luck)
        THEN [ok |-> TRUE, i |-> (CHOOSE j \in hits : \A h \in hits : j <= h) - 1]
        ELSE [ok |-> FALSE, i |-> less]

BinarySearch(s, x) == BinarySearchL(s, x, TRUE)

\* ---------------------------------------------------------------- nodes and pages

TagInternal == 0
TagLeaf == 1

\* Leaf { page_nr, keys, entries, next } / Internal { page_nr, keys, entries }
NewLeaf(page_nr, keys, entries, next) ==
    [page_nr |-> page_nr, tag |-> TagLeaf, keys |-> keys, entries |-> entries, next |-> next]

NewInternal(page_nr, keys, entries) ==
    [page_nr |-> page_nr, tag |-> TagInternal, keys |-> keys, entries |-> entries, next |-> None]

\* BTNode::serialize_into: tag byte, keys, entries, (next); page_nr is not written.
Serialize(node) ==
    [tag |-> node.tag, keys |-> node.keys, entries |-> node.entries, next |-> node.next]

\* BTNode::deserialize_from: page_nr comes from the caller.
Deserialize(pg, page_nr) ==
    [page_nr |-> page_nr, tag |-> pg.tag, keys |-> pg.keys, entries |-> pg.entries,
     next |-> pg.next]

\* deserialize_from with a catch-all arm: every byte other than 0 reads as a leaf.
deserialize_any_tag(pg, page_nr) ==
    IF pg.tag = 0 THEN [err |-> "", node |-> Some(NewInternal(page_nr, pg.keys, pg.entries))]
    ELSE [err |-> "", node |-> Some(NewLeaf(page_nr, pg.keys, pg.entries, pg.next))]

\* BTNode::deserialize_from: the first byte picks the variant; any byte other
\* than 0 and 1 is Error::InvalidFileFormat.
deserialize_from(pg, page_nr) ==
    IF pg.tag = 0 THEN [err |-> "", node |-> Some(NewInternal(page_nr, pg.keys, pg.entries))]
    ELSE IF pg.tag = 1 THEN [err |-> "", node |-> Some(NewLeaf(page_nr, pg.keys, pg.entries, pg.next))]
    ELSE [err |-> "InvalidFileFormat", node |-> None]

\* A page of zero bytes (a hole in the file) reads as an empty internal node.
ZeroPage == [tag |-> TagInternal, keys |-> <<>>, entries |-> <<>>, next |-> None]

\* ---------------------------------------------------------------- the coordinator record
\* bt = the BTree struct together with the db file it owns:
\*   pages (db file, page p at position p+1), node_count, entry_count,
\*   root_page_nr, free_pages, max_key_count, split_at,
\*   status: "ok" | "panic" (a panic unwound the call) | "io" (an Err was returned)
\*           | "overflow" (unbounded recursion or loop)

Fail(bt, why) == [bt EXCEPT !.status = why]

Ok(bt) == bt.status = "ok"

\* load_node returns Ok: the page is in the file and its tag byte is known.
CanLoad(bt, p) == p \in 0..(Len(bt.pages) - 1) /\ deserialize_from(bt.pages[p + 1], p).err = ""

\* BTree::load_node
load_node(bt, p) == Deserialize(bt.pages[p + 1], p)

\* BTree::store_node: seek to page_nr * PAGE_SIZE, write, pad to the page end.
\* log is not a field of the code: it lists what the current call has asked
\* store_node to write, <<page_nr, bytes>> in the order of the writes.
store_node(bt, node) ==
    LET p == node.page_nr
        n == Len(bt.pages)
    IN  [bt EXCEPT !.pages =
            IF p < n THEN [@ EXCEPT ![p + 1] = Serialize(node)]
            ELSE @ \o [j \in 1..(p - n) |-> ZeroPage] \o <<Serialize(node)>>,
                   !.log = Append(@, <<p, Serialize(node)>>)]

\* BTree::next_page_nr: returns node_count and increments it.
next_page_nr(bt) == [page_nr |-> bt.node_count, bt |-> [bt EXCEPT !.node_count = @ + 1]]

\* BTree::on_page_deleted: the page joins the free list, node_count drops by one.
on_page_deleted(bt, p) ==
    [bt EXCEPT !.free_pages = Append(@, p), !.node_count = @ - 1]

\* ---------------------------------------------------------------- Leaf

\* Leaf::get
LeafGet(self, key) ==
    LET bs == BinarySearch(self.keys, key)
    IN  IF bs.ok THEN Some(At(self.entries, bs.i)) ELSE None

IsFull(self, max_key_count) == Len(self.keys) >= max_key_count

\* Leaf::split
LeafSplit(self, page_nr, split_at) ==
    [split_key |-> At(self.keys, split_at),
     right |-> NewLeaf(page_nr, From(self.keys, split_at), From(self.entries, split_at),
                       self.next),
     left |-> [self EXCEPT !.next = Some(page_nr),
                           !.keys = Upto(@, split_at),
                           !.entries = Upto(@, split_at)]]

\* Leaf::insert
LeafInsert(self, i, key, value) ==
    [self EXCEPT !.keys = InsertAt(@, i, key), !.entries = InsertAt(@, i, value)]

\* Leaf::set -> (Option<(split_key, new_page)>, Option<old value>)
LeafSet(bt, self, key, value) ==
    LET bs == BinarySearch(self.keys, key)
    IN  IF bs.ok
        THEN [bt |-> store_node(bt, [self EXCEPT !.entries = SetAt(@, bs.i, value)]),
              split |-> None,
              prev |-> Some(At(self.entries, bs.i))]
        ELSE IF IsFull(self, bt.max_key_count)
        THEN IF Len(self.keys) <= bt.split_at
             THEN [bt |-> Fail(bt, "panic"), split |-> None, prev |-> None]
             ELSE
             LET np == next_page_nr(bt)
                 sp == LeafSplit(self, np.page_nr, bt.split_at)
                 l  == IF bs.i < bt.split_at
                       THEN LeafInsert(sp.left, bs.i, key, value) ELSE sp.left
                 r  == IF bs.i < bt.split_at
                       THEN sp.right
                       ELSE LeafInsert(sp.right, bs.i - bt.split_at, key, value)
             IN  [bt |-> store_node(store_node(np.bt, l), r),
                  split |-> Some(<<sp.split_key, r.page_nr>>),
                  prev |-> None]
        ELSE [bt |-> store_node(bt, LeafInsert(self, bs.i, key, value)),
              split |-> None,
              prev |-> None]

\* ---------------------------------------------------------------- Internal

\* Internal::get
InternalGet(self, key) ==
    LET bs == BinarySearch(self.keys, key)
    IN  IF bs.ok THEN At(self.entries, bs.i + 1) ELSE At(self.entries, bs.i)

\* The index Internal::get reads is inside entries.
CanRoute(self, key) ==
    LET bs == BinarySearch(self.keys, key)
    IN  (IF bs.ok THEN bs.i + 1 ELSE bs.i) < Len(self.entries)

\* Internal::split: the middle key leaves the node.
InternalSplit(self, page_nr, split_at) ==
    [split_key |-> At(self.keys, split_at),
     right |-> NewInternal(page_nr, From(self.keys, split_at + 1),
                           From(self.entries, split_at + 1)),
     left |-> [self EXCEPT !.keys = Upto(@, split_at),
                           !.entries = Upto(@, split_at + 1)]]

\* Internal::insert with the child pointer forgotten: the key goes in, the
\* entries stay as they were.
InternalInsertKeyOnly(self, i, key, value) ==
    [self EXCEPT !.keys = InsertAt(@, i, key)]

\* Internal::insert
InternalInsert(self, i, key, value) ==
    [self EXCEPT !.keys = InsertAt(@, i, key), !.entries = InsertAt(@, i + 1, value)]

\* Internal::set, after the child returned Some((key, page_nr)).
InternalSetSplit(bt, self, key, page_nr) ==
    LET bs == BinarySearch(self.keys, key)
        nosplit == [split |-> None, prev |-> None]
    IN  IF bs.ok
        THEN [bt |-> Fail(bt, "panic"), split |-> None, prev |-> None]
        ELSE IF IsFull(self, bt.max_key_count)
        THEN IF Len(self.keys) <= bt.split_at
             THEN [bt |-> Fail(bt, "panic"), split |-> None, prev |-> None]
             ELSE
             LET np == next_page_nr(bt)
                 sp == InternalSplit(self, np.page_nr, bt.split_at)
                 j  == bs.i - bt.split_at - 1
             IN  IF bs.i < bt.split_at
                 THEN [bt |-> store_node(store_node(np.bt,
                                 InternalInsert(sp.left, bs.i, key, page_nr)), sp.right),
                       split |-> Some(<<sp.split_key, np.page_nr>>),
                       prev |-> None]
                 ELSE IF j < 0 \/ j > Len(sp.right.keys)
                 \* usize underflow of i - split_at - 1, or Vec::insert past the end
                 THEN [bt |-> Fail(np.bt, "panic"), split |-> None, prev |-> None]
                 ELSE [bt |-> store_node(store_node(np.bt, sp.left),
                                 InternalInsert(sp.right, j, key, page_nr)),
                       split |-> Some(<<sp.split_key, np.page_nr>>),
                       prev |-> None]
        ELSE [bt |-> store_node(bt, InternalInsert(self, bs.i, key, page_nr)),
              split |-> None,
              prev |-> None]

\* Internal::set: descend, then take in what the child split off.
\* depth counts the levels below the root; a descent deeper than the file has
\* pages never ends.
RECURSIVE InternalSet(_, _, _, _, _)
InternalSet(bt, self, key, value, depth) ==
    LET stop(why) == [bt |-> Fail(bt, why), split |-> None, prev |-> None]
        \* r = what the child's set returned
        After(r) ==
            IF ~Ok(r.bt) THEN r
            ELSE IF ~IsSome(r.split) THEN [bt |-> r.bt, split |-> None, prev |-> r.prev]
            ELSE InternalSetSplit(r.bt, self, Unwrap(r.split)[1], Unwrap(r.split)[2])
        Descend(child) ==
            After(IF child.tag = TagInternal
                  THEN InternalSet(bt, child, key, value, depth + 1)
                  ELSE LeafSet(bt, child, key, value))
    IN  IF depth > Len(bt.pages) THEN stop("overflow")
        ELSE IF ~CanRoute(self, key) THEN stop("panic")
        ELSE IF ~CanLoad(bt, InternalGet(self, key)) THEN stop("io")
        ELSE Descend(load_node(bt, InternalGet(self, key)))

\* BTNode::set ("self" is the root page)
NodeSet(bt, root, key, value) ==
    IF root.tag = TagInternal
    THEN InternalSet(bt, root, key, value, 0)
    ELSE LeafSet(bt, root, key, value)

\* BTNode::get
RECURSIVE NodeGet(_, _, _, _)
NodeGet(bt, node, key, depth) ==
    IF node.tag = TagLeaf THEN [status |-> "ok", value |-> LeafGet(node, key)]
    ELSE IF depth > Len(bt.pages) THEN [status |-> "overflow", value |-> None]
    ELSE IF ~CanRoute(node, key) THEN [status |-> "panic", value |-> None]
    ELSE IF ~CanLoad(bt, InternalGet(node, key)) THEN [status |-> "io", value |-> None]
    ELSE NodeGet(bt, load_node(bt, InternalGet(node, key)), key, depth + 1)

\* ---------------------------------------------------------------- BTree

\* BTree::len
len(bt) == bt.entry_count

\* BTree::get without the early return for len() == 0.
BTreeGetNoEmptyCheck(bt, key) ==
    IF ~CanLoad(bt, bt.root_page_nr) THEN [status |-> "io", value |-> None]
    ELSE NodeGet(bt, load_node(bt, bt.root_page_nr), key, 0)

\* BTree::get
BTreeGet(bt, key) ==
    IF len(bt) = 0 THEN [status |-> "ok", value |-> None]
    ELSE IF ~CanLoad(bt, bt.root_page_nr) THEN [status |-> "io", value |-> None]
    ELSE NodeGet(bt, load_node(bt, bt.root_page_nr), key, 0)

\* BTree::create_first_root
create_first_root(bt, key, value) ==
    LET np == next_page_nr(bt)
        b1 == [np.bt EXCEPT !.root_page_nr = np.page_nr, !.entry_count = @ + 1]
    IN  store_node(b1, NewLeaf(np.page_nr, <<key>>, <<value>>, None))

\* BTree::create_new_root
create_new_root(bt, key, new_page_nr) ==
    LET np == next_page_nr(bt)
        b1 == [np.bt EXCEPT !.root_page_nr = np.page_nr]
    IN  store_node(b1, NewInternal(np.page_nr, <<key>>, <<bt.root_page_nr, new_page_nr>>))

\* BTree::set
BTreeSet(bt, key, value) ==
    IF len(bt) = 0
    THEN [bt |-> create_first_root(bt, key, value), ret |-> None]
    ELSE IF ~CanLoad(bt, bt.root_page_nr) THEN [bt |-> Fail(bt, "io"), ret |-> None]
    ELSE
    LET \* r = what the root's set returned
        Finish(r) ==
            LET b1 == IF IsSome(r.split)
                      THEN create_new_root(r.bt, Unwrap(r.split)[1], Unwrap(r.split)[2])
                      ELSE r.bt
                b2 == IF IsSome(r.prev) THEN b1 ELSE [b1 EXCEPT !.entry_count = @ + 1]
            IN  IF ~Ok(r.bt) THEN [bt |-> r.bt, ret |-> None]
                ELSE [bt |-> b2, ret |-> r.prev]
    IN  Finish(NodeSet(bt, load_node(bt, bt.root_page_nr), key, value))

\* ---------------------------------------------------------------- removal

\* A get_child_node_info that treats an exact match like a miss (left subtree).
get_child_node_info_left(self, key) ==
    LET i == BinarySearch(self.keys, key).i
    IN  [page_nr  |-> At(self.entries, i),
         lparent  |-> Some(i),
         rparent  |-> IF i > 0 THEN Some(i - 1) ELSE None,
         lsibling |-> IF i > 0 THEN Some(At(self.entries, i - 1)) ELSE None,
         rsibling |-> IF i < Len(self.entries) - 1
                      THEN Some(At(self.entries, i + 1)) ELSE None]

\* A get_child_node_info whose rparent after a miss is the child's own index.
get_child_node_info_own_index(self, key) ==
    LET bs == BinarySearch(self.keys, key)
        i  == bs.i
    IN  IF bs.ok
        THEN [page_nr  |-> At(self.entries, i + 1),
              lparent  |-> IF i < Len(self.keys) - 1 THEN Some(i + 1) ELSE None,
              rparent  |-> Some(i),
              lsibling |-> Some(At(self.entries, i)),
              rsibling |-> IF i < Len(self.entries) - 2
                           THEN Some(At(self.entries, i + 2)) ELSE None]
        ELSE [page_nr  |-> At(self.entries, i),
              lparent  |-> Some(i),
              rparent  |-> IF i > 0 THEN Some(i) ELSE None,
              lsibling |-> IF i > 0 THEN Some(At(self.entries, i - 1)) ELSE None,
              rsibling |-> IF i < Len(self.entries) - 1
                           THEN Some(At(self.entries, i + 1)) ELSE None]

\* ChildNodeInfo { page_nr, lparent, rparent, lsibling, rsibling }
\* Internal::get_child_node_info
get_child_node_info(self, key) ==
    LET bs == BinarySearch(self.keys, key)
        i  == bs.i
    IN  IF bs.ok
        THEN [page_nr  |-> At(self.entries, i + 1),
              lparent  |-> IF i < Len(self.keys) - 1 THEN Some(i + 1) ELSE None,
              rparent  |-> Some(i),
              lsibling |-> Some(At(self.entries, i)),
              rsibling |-> IF i < Len(self.entries) - 2
                           THEN Some(At(self.entries, i + 2)) ELSE None]
        ELSE [page_nr  |-> At(self.entries, i),
              lparent  |-> Some(i),
              rparent  |-> IF i > 0 THEN Some(i - 1) ELSE None,
              lsibling |-> IF i > 0 THEN Some(At(self.entries, i - 1)) ELSE None,
              rsibling |-> IF i < Len(self.entries) - 1
                           THEN Some(At(self.entries, i + 1)) ELSE None]

\* the panic of parent.keys[idx.unwrap()] when idx is None or past the keys
ParentKeyMissing == "parent key index out of bounds"

\* parent.keys[idx.unwrap()] is a valid place
HasKey(parent, idx) == IsSome(idx) /\ Unwrap(idx) < Len(parent.keys)

\* The outcome of loading a sibling and unwrapping it as the expected variant:
\* "ok", "io" (no such page) or "panic" (leaf_node()/internal_node() on the other variant).
SiblingStatus(bt, page, tag) ==
    IF ~CanLoad(bt, page) THEN "io"
    ELSE IF load_node(bt, page).tag # tag THEN "panic"
    ELSE "ok"

\* the panic of the two assertions before a leaf takes in its right sibling
MergeRightAssert == "assertion failed: rsibling"

\* Leaf::remove, the rebalance of an underfull non-root leaf (lines 94-144).
\* self has already lost the key.
LeafRebalance(bt, self, parent, path_info) ==
    LET out(b, s, p, d) == [bt |-> b, self |-> s, parent |-> p, deleted_page |-> d]
        stop(why) == out(Fail(bt, why), self, parent, None)
        hasL == IsSome(path_info.lsibling)
        hasR == IsSome(path_info.rsibling)
        lst  == IF hasL THEN SiblingStatus(bt, Unwrap(path_info.lsibling), TagLeaf) ELSE "ok"
        lnode == load_node(bt, Unwrap(path_info.lsibling))
        fromL == hasL /\ lst = "ok" /\ Len(lnode.keys) > bt.split_at
        rst  == IF hasR THEN SiblingStatus(bt, Unwrap(path_info.rsibling), TagLeaf) ELSE "ok"
        rnode == load_node(bt, Unwrap(path_info.rsibling))
        fromR == hasR /\ rst = "ok" /\ Len(rnode.keys) > bt.split_at
    IN  IF lst # "ok" THEN stop(lst)
        ELSE IF fromL
        THEN \* transfer the last pair of the left sibling
             IF ~HasKey(parent, path_info.rparent) THEN stop(ParentKeyMissing)
             ELSE
             LET k == Last(lnode.keys)
                 v == Last(lnode.entries)
                 donor == [lnode EXCEPT !.keys = Init_(@), !.entries = Init_(@)]
             IN  out(store_node(bt, donor),
                     [self EXCEPT !.keys = <<k>> \o @, !.entries = <<v>> \o @],
                     [parent EXCEPT !.keys = SetAt(@, Unwrap(path_info.rparent), k)],
                     None)
        ELSE IF rst # "ok" THEN stop(rst)
        ELSE IF fromR
        THEN \* transfer the first pair of the right sibling
             LET k == rnode.keys[1]
                 v == rnode.entries[1]
                 donor == [rnode EXCEPT !.keys = Tail(@), !.entries = Tail(@)]
             IN  IF donor.keys = <<>> THEN stop("panic")
                 ELSE IF ~HasKey(parent, path_info.lparent) THEN stop(ParentKeyMissing)
                 ELSE out(store_node(bt, donor),
                          [self EXCEPT !.keys = Append(@, k), !.entries = Append(@, v)],
                          [parent EXCEPT !.keys =
                              SetAt(@, Unwrap(path_info.lparent), donor.keys[1])],
                          None)
        ELSE IF hasL
        THEN \* merge this node into the left sibling
             out(on_page_deleted(bt, self.page_nr),
                 [lnode EXCEPT !.keys = @ \o self.keys,
                               !.entries = @ \o self.entries,
                               !.next = self.next],
                 parent,
                 Some(self.page_nr))
        ELSE \* merge the right sibling into this node
             IF ~hasR \/ path_info.rsibling # self.next THEN stop(MergeRightAssert)
             ELSE out(on_page_deleted(bt, rnode.page_nr),
                      [self EXCEPT !.keys = @ \o rnode.keys,
                                   !.entries = @ \o rnode.entries,
                                   !.next = rnode.next],
                      parent,
                      Some(rnode.page_nr))

\* A Leaf::remove that on a miss takes out the pair at the insertion point.
LeafRemoveAtInsertionPoint(bt, self, key, parent, path_info, has_parent) ==
    LET bs == BinarySearch(self.keys, key)
        s1 == [self EXCEPT !.keys = RemoveAt(@, bs.i), !.entries = RemoveAt(@, bs.i)]
        \* rb = what the rebalance left
        Finish(rb) ==
            IF ~Ok(rb.bt)
            THEN [bt |-> rb.bt, parent |-> parent, value |-> None, deleted_page |-> None]
            ELSE [bt |-> store_node(rb.bt, rb.self), parent |-> rb.parent,
                  value |-> Some(At(self.entries, bs.i)),
                  deleted_page |-> rb.deleted_page]
    IN  IF ~bs.ok /\ bs.i >= Len(self.keys)
        THEN [bt |-> bt, parent |-> parent, value |-> None, deleted_page |-> None]
        ELSE IF Len(s1.keys) < bt.split_at /\ has_parent
        THEN Finish(LeafRebalance(bt, s1, parent, path_info))
        ELSE [bt |-> store_node(bt, s1), parent |-> parent,
              value |-> Some(At(self.entries, bs.i)), deleted_page |-> None]

\* Leaf::remove -> (Option<old value>, Option<deleted page>); parent is the
\* caller's in-memory node, handed back as the call left it.
LeafRemove(bt, self, key, parent, path_info, has_parent) ==
    LET bs == BinarySearch(self.keys, key)
        s1 == [self EXCEPT !.keys = RemoveAt(@, bs.i), !.entries = RemoveAt(@, bs.i)]
        \* rb = what the rebalance left
        Finish(rb) ==
            IF ~Ok(rb.bt)
            THEN [bt |-> rb.bt, parent |-> parent, value |-> None, deleted_page |-> None]
            ELSE [bt |-> store_node(rb.bt, rb.self), parent |-> rb.parent,
                  value |-> Some(At(self.entries, bs.i)),
                  deleted_page |-> rb.deleted_page]
    IN  IF ~bs.ok
        THEN [bt |-> bt, parent |-> parent, value |-> None, deleted_page |-> None]
        ELSE IF Len(s1.keys) < bt.split_at /\ has_parent
        THEN Finish(LeafRebalance(bt, s1, parent, path_info))
        ELSE [bt |-> store_node(bt, s1), parent |-> parent,
              value |-> Some(At(self.entries, bs.i)), deleted_page |-> None]

\* An internal rebalance whose merges leave the parent's separator out.
InternalRebalanceNoSeparator(bt, self, parent, path_info) ==
    LET out(b, s, p, d) == [bt |-> b, self |-> s, parent |-> p, deleted_page |-> d]
        stop(why) == out(Fail(bt, why), self, parent, None)
        hasL == IsSome(path_info.lsibling)
        hasR == IsSome(path_info.rsibling)
        lst  == IF hasL THEN SiblingStatus(bt, Unwrap(path_info.lsibling), TagInternal)
                ELSE "ok"
        lnode == load_node(bt, Unwrap(path_info.lsibling))
        fromL == hasL /\ lst = "ok" /\ Len(lnode.keys) > bt.split_at
        rst  == IF hasR THEN SiblingStatus(bt, Unwrap(path_info.rsibling), TagInternal)
                ELSE "ok"
        rnode == load_node(bt, Unwrap(path_info.rsibling))
        fromR == hasR /\ rst = "ok" /\ Len(rnode.keys) > bt.split_at
    IN  IF lst # "ok" THEN stop(lst)
        ELSE IF fromL
        THEN IF lnode.entries = <<>> THEN stop("panic")
             ELSE IF ~HasKey(parent, path_info.rparent) THEN stop(ParentKeyMissing)
             ELSE
             LET k == Last(lnode.keys)
                 v == Last(lnode.entries)
                 donor == [lnode EXCEPT !.keys = Init_(@), !.entries = Init_(@)]
             IN  out(store_node(bt, donor),
                     [self EXCEPT !.keys = <<k>> \o @, !.entries = <<v>> \o @],
                     [parent EXCEPT !.keys = SetAt(@, Unwrap(path_info.rparent), k)],
                     None)
        ELSE IF rst # "ok" THEN stop(rst)
        ELSE IF fromR
        THEN LET k == rnode.keys[1]
                 v == rnode.entries[1]
                 donor == [rnode EXCEPT !.keys = Tail(@), !.entries = Tail(@)]
             IN  IF donor.keys = <<>> \/ rnode.entries = <<>> THEN stop("panic")
                 ELSE IF ~HasKey(parent, path_info.lparent) THEN stop(ParentKeyMissing)
                 ELSE out(store_node(bt, donor),
                          [self EXCEPT !.keys = Append(@, k), !.entries = Append(@, v)],
                          [parent EXCEPT !.keys =
                              SetAt(@, Unwrap(path_info.lparent), donor.keys[1])],
                          None)
        ELSE IF hasL
        THEN \* merge this node into the left sibling, the parent's separator between
             IF ~HasKey(parent, path_info.rparent) THEN stop(ParentKeyMissing)
             ELSE out(on_page_deleted(bt, self.page_nr),
                      [lnode EXCEPT !.keys = @ \o self.keys,
                                    !.entries = @ \o self.entries],
                      parent,
                      Some(self.page_nr))
        ELSE IF hasR
        THEN \* merge the right sibling into this node
             IF ~HasKey(parent, path_info.lparent) THEN stop(ParentKeyMissing)
             ELSE out(on_page_deleted(bt, rnode.page_nr),
                      [self EXCEPT !.keys = @ \o rnode.keys,
                                   !.entries = @ \o rnode.entries],
                      parent,
                      Some(rnode.page_nr))
        ELSE out(bt, self, parent, None)

\* Internal::remove_page, the rebalance of an underfull non-root internal
\* node (lines 369-421).
InternalRebalance(bt, self, parent, path_info) ==
    LET out(b, s, p, d) == [bt |-> b, self |-> s, parent |-> p, deleted_page |-> d]
        stop(why) == out(Fail(bt, why), self, parent, None)
        hasL == IsSome(path_info.lsibling)
        hasR == IsSome(path_info.rsibling)
        lst  == IF hasL THEN SiblingStatus(bt, Unwrap(path_info.lsibling), TagInternal)
                ELSE "ok"
        lnode == load_node(bt, Unwrap(path_info.lsibling))
        fromL == hasL /\ lst = "ok" /\ Len(lnode.keys) > bt.split_at
        rst  == IF hasR THEN SiblingStatus(bt, Unwrap(path_info.rsibling), TagInternal)
                ELSE "ok"
        rnode == load_node(bt, Unwrap(path_info.rsibling))
        fromR == hasR /\ rst = "ok" /\ Len(rnode.keys) > bt.split_at
    IN  IF lst # "ok" THEN stop(lst)
        ELSE IF fromL
        THEN IF lnode.entries = <<>> THEN stop("panic")
             ELSE IF ~HasKey(parent, path_info.rparent) THEN stop(ParentKeyMissing)
             ELSE
             LET k == Last(lnode.keys)
                 v == Last(lnode.entries)
                 donor == [lnode EXCEPT !.keys = Init_(@), !.entries = Init_(@)]
             IN  out(store_node(bt, donor),
                     [self EXCEPT !.keys = <<k>> \o @, !.entries = <<v>> \o @],
                     [parent EXCEPT !.keys = SetAt(@, Unwrap(path_info.rparent), k)],
                     None)
        ELSE IF rst # "ok" THEN stop(rst)
        ELSE IF fromR
        THEN LET k == rnode.keys[1]
                 v == rnode.entries[1]
                 donor == [rnode EXCEPT !.keys = Tail(@), !.entries = Tail(@)]
             IN  IF donor.keys = <<>> \/ rnode.entries = <<>> THEN stop("panic")
                 ELSE IF ~HasKey(parent, path_info.lparent) THEN stop(ParentKeyMissing)
                 ELSE out(store_node(bt, donor),
                          [self EXCEPT !.keys = Append(@, k), !.entries = Append(@, v)],
                          [parent EXCEPT !.keys =
                              SetAt(@, Unwrap(path_info.lparent), donor.keys[1])],
                          None)
        ELSE IF hasL
        THEN \* merge this node into the left sibling, the parent's separator between
             IF ~HasKey(parent, path_info.rparent) THEN stop(ParentKeyMissing)
             ELSE out(on_page_deleted(bt, self.page_nr),
                      [lnode EXCEPT !.keys = Append(@, At(parent.keys,
                                                 Unwrap(path_info.rparent))) \o self.keys,
                                    !.entries = @ \o self.entries],
                      parent,
                      Some(self.page_nr))
        ELSE IF hasR
        THEN \* merge the right sibling into this node
             IF ~HasKey(parent, path_info.lparent) THEN stop(ParentKeyMissing)
             ELSE out(on_page_deleted(bt, rnode.page_nr),
                      [self EXCEPT !.keys = Append(@, At(parent.keys,
                                                Unwrap(path_info.lparent))) \o rnode.keys,
                                   !.entries = @ \o rnode.entries],
                      parent,
                      Some(rnode.page_nr))
        ELSE out(bt, self, parent, None)

\* the panic of remove_page when binary_search misses the reclaimed page
DeletedPageMissing == "deleted page should be present"

\* Internal::remove_page: drop the deleted child and the key left of it, then
\* collapse the root or rebalance.
remove_page(bt, self, page_nr, parent, path_info, has_parent, luck) ==
    LET out(b, s, p, d) == [bt |-> b, self |-> s, parent |-> p, deleted_page |-> d]
        stop(why) == out(Fail(bt, why), self, parent, None)
        bs == BinarySearchL(self.entries, page_nr, luck)
        i  == bs.i
        s1 == [self EXCEPT !.keys = RemoveAt(@, i - 1), !.entries = RemoveAt(@, i)]
    IN  IF ~bs.ok THEN stop(DeletedPageMissing)
        ELSE IF i - 1 < 0 \/ i - 1 >= Len(self.keys) THEN stop("panic")
        ELSE IF ~has_parent
        THEN IF Len(s1.keys) = 0
             THEN IF s1.entries = <<>> THEN stop("panic")
                  ELSE out(on_page_deleted([bt EXCEPT !.root_page_nr = s1.entries[1]],
                                           s1.page_nr),
                           s1, parent, Some(s1.page_nr))
             ELSE out(bt, s1, parent, None)
        ELSE IF Len(s1.keys) < bt.split_at
        THEN InternalRebalance(bt, s1, parent, path_info)
        ELSE out(bt, s1, parent, None)

\* Internal::remove
RECURSIVE InternalRemove(_, _, _, _, _, _, _, _)
InternalRemove(bt, self, key, parent, path_info, has_parent, luck, depth) ==
    LET stop(b) == [bt |-> b, parent |-> parent, value |-> None, deleted_page |-> None]
        \* r = what the child's remove returned, rp = what remove_page returned;
        \* r.parent is this node as the child's remove left it
        AfterPage(r, rp) ==
            IF ~Ok(rp.bt) THEN stop(rp.bt)
            ELSE [bt |-> store_node(rp.bt, rp.self), parent |-> rp.parent,
                  value |-> r.value, deleted_page |-> rp.deleted_page]
        After(r) ==
            IF ~Ok(r.bt) THEN stop(r.bt)
            ELSE IF ~IsSome(r.deleted_page)
            THEN [bt |-> store_node(r.bt, r.parent), parent |-> parent,
                  value |-> r.value, deleted_page |-> None]
            ELSE AfterPage(r, remove_page(r.bt, r.parent, Unwrap(r.deleted_page), parent,
                                          path_info, has_parent, luck))
        Descend(child_info, child) ==
            After(IF child.tag = TagInternal
                  THEN InternalRemove(bt, child, key, self, child_info, TRUE, luck,
                                      depth + 1)
                  ELSE LeafRemove(bt, child, key, self, child_info, TRUE))
        Route(child_info) ==
            IF ~CanLoad(bt, child_info.page_nr) THEN stop(Fail(bt, "io"))
            ELSE Descend(child_info, load_node(bt, child_info.page_nr))
    IN  IF depth > Len(bt.pages) THEN stop(Fail(bt, "overflow"))
        ELSE IF ~CanRoute(self, key) THEN stop(Fail(bt, "panic"))
        ELSE Route(get_child_node_info(self, key))

\* A stand-in for the absent parent and path_info of the root (None, None).
NoParent == NewInternal(0, <<>>, <<>>)
NoInfo == [page_nr |-> 0, lparent |-> None, rparent |-> None,
           lsibling |-> None, rsibling |-> None]

\* BTNode::remove ("self" is the root page)
NodeRemove(bt, root, key, luck) ==
    LET Result(r) == [bt |-> r.bt, value |-> r.value]
    IN  Result(IF root.tag = TagInternal
               THEN InternalRemove(bt, root, key, NoParent, NoInfo, FALSE, luck, 0)
               ELSE LeafRemove(bt, root, key, NoParent, NoInfo, FALSE))

\* BTree::remove
BTreeRemove(bt, key, luck) ==
    IF len(bt) = 0 THEN [bt |-> bt, ret |-> None]
    ELSE IF ~CanLoad(bt, bt.root_page_nr) THEN [bt |-> Fail(bt, "io"), ret |-> None]
    ELSE
    LET \* r = what the root's remove returned
        Finish(r) ==
            IF ~Ok(r.bt) THEN [bt |-> r.bt, ret |-> None]
            ELSE IF IsSome(r.value)
            THEN [bt |-> [r.bt EXCEPT !.entry_count = @ - 1], ret |-> r.value]
            ELSE [bt |-> r.bt, ret |-> None]
    IN  Finish(NodeRemove(bt, load_node(bt, bt.root_page_nr), key, luck))

\* ---------------------------------------------------------------- state

VARIABLES
    pages,          \* the db file: page p is pages[p + 1]
    node_count,     \* BTree.node_count
    entry_count,    \* BTree.entry_count
    root_page_nr,   \* BTree.root_page_nr
    free_pages,     \* BTree.free_pages
    max_key_count,  \* BTree.max_key_count
    split_at,       \* BTree.split_at
    key_size,       \* BTree.key_size = size_of::<K>()
    value_size,     \* BTree.value_size = size_of::<V>()
    status,         \* "ok", or how the last call ended the session
    opened,         \* a BTree value is alive
    meta,           \* the meta file: None, or Some(the fields stored)
    ref,            \* the reference map: key -> None | Some(value)
    last,           \* the last call and what it returned
    budget          \* what is left of the history: fill, ops, bulk, drops

vars == <<pages, node_count, entry_count, root_page_nr, free_pages, max_key_count,
          split_at, key_size, value_size, status, opened, meta, ref, last, budget>>

\* The coordinator record of the current state.
BT == [pages |-> pages, node_count |-> node_count, entry_count |-> entry_count,
       root_page_nr |-> root_page_nr, free_pages |-> free_pages,
       max_key_count |-> max_key_count, split_at |-> split_at, status |-> status,
       log |-> <<>>]

\* split_at = ceil(max_key_count / 2)
SplitAt(mkc) == (mkc \div 2) + (mkc % 2)

\* A call, what it returned, and what the caller saw just before it:
\* had = the reference map's entry for the key, len, node_count, root_page_nr;
\* log = the writes of the call.
NoCall == [op |-> "none", key |-> 0, value |-> 0, ret |-> None, had |-> None,
           len |-> 0, node_count |-> 0, root_page_nr |-> 0, log |-> <<>>]

Called(op, key, value, ret) ==
    [op |-> op, key |-> key, value |-> value, ret |-> ret,
     had |-> IF key \in Keys THEN ref[key] ELSE None,
     len |-> entry_count, node_count |-> node_count, root_page_nr |-> root_page_nr,
     log |-> <<>>]

\* size_of::<u128>(), the key and value type of the trees the tests build.
SizeOfU128 == 16

\* BTree::new, on a directory that holds no files yet.
NewTree ==
    /\ pages = <<>>
    /\ node_count = 0
    /\ entry_count = 0
    /\ root_page_nr = 0
    /\ free_pages = <<>>
    /\ max_key_count = Mkc
    /\ split_at = SplitAt(max_key_count)
    /\ key_size = SizeOfU128
    /\ value_size = SizeOfU128
    /\ status = "ok"
    /\ opened = TRUE
    /\ meta = None
    /\ ref = [k \in Keys |-> None]
    /\ last = NoCall

Init == NewTree /\ budget = [fill |-> MaxFill, ops |-> MaxOps, bulk |-> 0, drops |-> 0]

InitP == NewTree /\ budget = [fill |-> 0, ops |-> 0, bulk |-> MaxBulk, drops |-> MaxDrops]

Install(bt) ==
    /\ pages' = bt.pages
    /\ node_count' = bt.node_count
    /\ entry_count' = bt.entry_count
    /\ root_page_nr' = bt.root_page_nr
    /\ free_pages' = bt.free_pages
    /\ status' = bt.status
    /\ UNCHANGED <<max_key_count, split_at, key_size, value_size>>

Live == opened /\ status = "ok"

\* btree.set(key, value)
DoSet(key, value) ==
    /\ LET Returned(r) ==
               /\ Install(r.bt)
               /\ last' = [Called("set", key, value, r.ret) EXCEPT !.log = r.bt.log]
       IN  Returned(BTreeSet(BT, key, value))
    /\ ref' = [ref EXCEPT ![key] = Some(value)]
    /\ UNCHANGED <<opened, meta>>

\* btree.remove(key)
DoRemove(key, luck) ==
    /\ LET Returned(r) ==
               /\ Install(r.bt)
               /\ last' = [Called("remove", key, 0, r.ret) EXCEPT !.log = r.bt.log]
       IN  Returned(BTreeRemove(BT, key, luck))
    /\ ref' = [ref EXCEPT ![key] = None]
    /\ UNCHANGED <<opened, meta>>

\* The next call of the ascending fill that opens a history of Spec.
Fill ==
    /\ Live
    /\ budget.fill > 0
    /\ budget.ops = MaxOps
    /\ FillStep * (MaxFill - budget.fill + 1) \in Keys
    /\ DoSet(FillStep * (MaxFill - budget.fill + 1), 1)
    /\ budget' = [budget EXCEPT !.fill = @ - 1]

Set(key, value) ==
    /\ Live
    /\ budget.ops > 0
    /\ DoSet(key, value)
    /\ budget' = [budget EXCEPT !.ops = @ - 1]

Remove(key, luck) ==
    /\ Live
    /\ budget.ops > 0
    /\ DoRemove(key, luck)
    /\ budget' = [budget EXCEPT !.ops = @ - 1]

\* The value the next set after the fill writes.
NextVal == MaxOps - budget.ops + 2

Next ==
    \/ Fill
    \/ \E k \in Keys : Set(k, NextVal)
    \/ \E k \in Keys, luck \in BOOLEAN : Remove(k, luck)

Spec == Init /\ [][Next]_vars

\* ---------------------------------------------------------------- sessions

Stored == {k \in Keys : IsSome(ref[k])}

MaxStored == CHOOSE k \in Stored : \A j \in Stored : j <= k

\* The multiples of FillStep above every stored key.
Above == {k \in Keys : k % FillStep = 0 /\ \A j \in Stored : j < k}

\* set(next key above the stored ones, 1)
BulkSet ==
    /\ Live
    /\ budget.bulk > 0
    /\ Above # {}
    /\ DoSet(CHOOSE k \in Above : \A j \in Above : k <= j, 1)
    /\ budget' = [budget EXCEPT !.bulk = @ - 1]

\* remove(largest stored key)
BulkRemove ==
    /\ Live
    /\ budget.bulk > 0
    /\ Stored # {}
    /\ DoRemove(MaxStored, TRUE)
    /\ budget' = [budget EXCEPT !.bulk = @ - 1]

\* What bincode writes of the BTree struct (directory and fh are skipped).
MetaOf(bt) ==
    [magic_header |-> "%bptree%", node_count |-> bt.node_count,
     entry_count |-> bt.entry_count, root_page_nr |-> bt.root_page_nr,
     free_pages |-> bt.free_pages, max_key_count |-> bt.max_key_count,
     split_at |-> bt.split_at]

\* Drop for BTree: the meta file is written when len() > 0.
Drop ==
    /\ Live
    /\ budget.drops > 0
    /\ opened' = FALSE
    /\ meta' = IF len(BT) > 0 THEN Some(MetaOf(BT)) ELSE meta
    /\ last' = Called("drop", 0, 0, None)
    /\ budget' = [budget EXCEPT !.drops = @ - 1]
    /\ UNCHANGED <<pages, node_count, entry_count, root_page_nr, free_pages,
                   max_key_count, split_at, key_size, value_size, status, ref>>

\* BTree::new
new(pgs) ==
    [pages |-> pgs, node_count |-> 0, entry_count |-> 0, root_page_nr |-> 0,
     free_pages |-> <<>>, max_key_count |-> Mkc, split_at |-> SplitAt(Mkc),
     status |-> "ok"]

\* BTree::load_meta
load_meta(m, pgs) ==
    [pages |-> pgs, node_count |-> m.node_count, entry_count |-> m.entry_count,
     root_page_nr |-> m.root_page_nr, free_pages |-> m.free_pages,
     max_key_count |-> m.max_key_count, split_at |-> m.split_at, status |-> "ok"]

\* BTree::open: load_meta when the meta file exists, else BTree::new.
open(m, pgs) == IF IsSome(m) THEN load_meta(Unwrap(m), pgs) ELSE new(pgs)

Open ==
    /\ ~opened
    /\ status = "ok"
    /\ opened' = TRUE
    /\ LET bt == open(meta, pages)
       IN  /\ node_count' = bt.node_count
           /\ entry_count' = bt.entry_count
           /\ root_page_nr' = bt.root_page_nr
           /\ free_pages' = bt.free_pages
           /\ max_key_count' = bt.max_key_count
           /\ split_at' = bt.split_at
    /\ last' = Called("open", 0, 0, None)
    /\ UNCHANGED <<pages, status, meta, ref, budget, key_size, value_size>>

NextP ==
    \/ BulkSet
    \/ BulkRemove
    \/ Drop
    \/ Open

SpecP == InitP /\ [][NextP]_vars

\* ---------------------------------------------------------------- damaged files
\* A history of SpecF: at most MaxFormat bulk sets and MaxDrops drops, each
\* followed by open(); while no tree is open the files may be damaged: the tag
\* byte of a page is overwritten with a byte of 2..MaxTag, or the magic header
\* of the meta file with another string.  (A tag of 0 written over a leaf, or
\* 1 over an internal node, makes bincode read one variant's bytes as the
\* other's; such files are not part of SpecF.)

InitF == NewTree /\ budget = [fill |-> 0, ops |-> 0, bulk |-> MaxFormat, drops |-> MaxDrops]

CorruptTag(p, b) ==
    /\ ~opened
    /\ status = "ok"
    /\ p \in 0..(Len(pages) - 1)
    /\ pages' = [pages EXCEPT ![p + 1].tag = b]
    /\ last' = Called("corrupt", p, b, None)
    /\ UNCHANGED <<node_count, entry_count, root_page_nr, free_pages, max_key_count, split_at,
                   key_size, value_size, status, opened, meta, ref, budget>>

ForgeMagic(h) ==
    /\ ~opened
    /\ status = "ok"
    /\ IsSome(meta)
    /\ meta' = Some([Unwrap(meta) EXCEPT !.magic_header = h])
    /\ last' = Called("forge", 0, 0, None)
    /\ UNCHANGED <<pages, node_count, entry_count, root_page_nr, free_pages, max_key_count,
                   split_at, key_size, value_size, status, opened, ref, budget>>

\* BTree::load_node(p): what it returns is kept in last.ret as the variant
\* of the node, an Err ends the session with the error as status.
LoadNode(p) ==
    /\ Live
    /\ p \in 0..(Len(pages) - 1)
    /\ LET Returned(r) ==
               /\ status' = IF r.err = "" THEN "ok" ELSE r.err
               /\ last' = Called("load_node", p, 0,
                                 IF IsSome(r.node) THEN Some(Unwrap(r.node).tag) ELSE None)
       IN  Returned(deserialize_from(pages[p + 1], p))
    /\ UNCHANGED <<pages, node_count, entry_count, root_page_nr, free_pages, max_key_count,
                   split_at, key_size, value_size, opened, meta, ref, budget>>

NextF ==
    \/ BulkSet
    \/ Drop
    \/ Open
    \/ \E p \in 0..MaxFormat, b \in 2..MaxTag : CorruptTag(p, b)
    \/ \E h \in {"%bptree%", "%bptre3%"} : ForgeMagic(h)
    \/ \E p \in 0..MaxFormat : LoadNode(p)

SpecF == InitF /\ [][NextF]_vars

\* ---------------------------------------------------------------- page sizes

PAGE_SIZE == 4096

\* max_key_count(size_key, size_value), in u64: the subtraction panics (debug
\* build) or wraps (release build) once size_value + 17 exceeds PAGE_SIZE; the
\* sizes of SpecS stay below that.
MaxKeyCount(size_key, size_value) == (PAGE_SIZE - size_value - 17) \div (size_key + size_value)

\* What bincode writes of a Vec<T>: the length as u64, then the elements.
VecLen(v, elem_size) == 8 + Len(v) * elem_size

\* What bincode writes of an Option<u64>: one byte, then the u64 when Some.
OptionLen(o) == 1 + (IF IsSome(o) THEN 8 ELSE 0)

\* The bytes BTNode::serialize_into writes: the tag byte, keys, entries, and
\* for a leaf next.  The entries of an internal node are u64 page numbers.
SerializedLen(node, size_key, size_value) ==
    IF node.tag = TagLeaf
    THEN 1 + VecLen(node.keys, size_key) + VecLen(node.entries, size_value) + OptionLen(node.next)
    ELSE 1 + VecLen(node.keys, size_key) + VecLen(node.entries, 8)

\* A leaf with n pairs and a next pointer; an internal node with n keys.
FullLeaf(n) == NewLeaf(0, [j \in 1..n |-> j], [j \in 1..n |-> 1], Some(1))

FullInternal(n) == NewInternal(0, [j \in 1..n |-> j], [j \in 1..(n + 1) |-> j])

\* BTree::new for key and value types of any size.
InitS ==
    /\ pages = <<>>
    /\ node_count = 0
    /\ entry_count = 0
    /\ root_page_nr = 0
    /\ free_pages = <<>>
    /\ key_size \in 1..MaxKeySize
    /\ value_size \in 1..MaxValueSize
    /\ max_key_count = MaxKeyCount(key_size, value_size)
    /\ split_at = SplitAt(max_key_count)
    /\ status = "ok"
    /\ opened = TRUE
    /\ meta = None
    /\ ref = [k \in Keys |-> None]
    /\ last = NoCall
    /\ budget = [fill |-> 0, ops |-> 0, bulk |-> 0, drops |-> 0]

\* BTree::store_node of a node as full as the tree lets it get: the assertion
\* pos < offset + PAGE_SIZE panics when the node does not end inside its page.
StoreFull(node) ==
    /\ Live
    /\ max_key_count >= 1
    /\ status' = IF SerializedLen(node, key_size, value_size) < PAGE_SIZE THEN "ok" ELSE "panic"
    /\ last' = Called("store_node", node.tag, 0, Some(SerializedLen(node, key_size, value_size)))
    /\ UNCHANGED <<pages, node_count, entry_count, root_page_nr, free_pages, max_key_count,
                   split_at, key_size, value_size, opened, meta, ref, budget>>

StoreFullLeaf == StoreFull(FullLeaf(max_key_count))

StoreFullInternal == StoreFull(FullInternal(max_key_count))

NextS ==
    \/ StoreFullLeaf
    \/ StoreFullInternal

SpecS == InitS /\ [][NextS]_vars

\* ---------------------------------------------------------------- single node calls
\* SpecN calls Leaf::set and Internal::set once on a tree of n = 2..Mkc + 1
\* full leaves under one root, the tree the sets k = 2, 4, 6, ... in ascending
\* order and then one more key per leaf build: leaf j holds the keys
\* j * 2 * Mkc + 2, + 4, ..., the leaves are on pages 0, 1, 3, 4, ... and the
\* root on page 2.  With n = Mkc + 1 the root is full as well.

CombKeys == 1..((Mkc + 1) * 2 * Mkc + 1)

CombLeafKeys(j) == [i \in 1..Mkc |-> j * 2 * Mkc + 2 * i]

CombLeafPage(j) == IF j < 2 THEN j ELSE j + 1

CombPages(n) ==
    [q \in 1..(n + 1) |->
        IF q - 1 = 2
        THEN Serialize(NewInternal(2, [j \in 1..(n - 1) |-> CombLeafKeys(j)[1]],
                                      [j \in 1..n |-> CombLeafPage(j - 1)]))
        ELSE LET j == IF q - 1 < 2 THEN q - 1 ELSE q - 2
             IN  Serialize(NewLeaf(q - 1, CombLeafKeys(j), [i \in 1..Mkc |-> 1],
                                   IF j = n - 1 THEN None ELSE Some(CombLeafPage(j + 1))))]

InitN ==
    /\ \E n \in 2..(Mkc + 1) :
           /\ pages = CombPages(n)
           /\ node_count = n + 1
           /\ entry_count = n * Mkc
    /\ root_page_nr = 2
    /\ free_pages = <<>>
    /\ max_key_count = Mkc
    /\ split_at = SplitAt(max_key_count)
    /\ key_size = SizeOfU128
    /\ value_size = SizeOfU128
    /\ status = "ok"
    /\ opened = TRUE
    /\ meta = None
    /\ ref = [k \in Keys |-> None]
    /\ last = NoCall
    /\ budget = [fill |-> 0, ops |-> 0, bulk |-> 0, drops |-> 0]

\* One call of a node's set; last.ret is the Option<(split_key, new_page)> it
\* returned, last.value the page of the node.
NodeCall(op, p, key, r) ==
    /\ Install(r.bt)
    /\ last' = [Called(op, key, p, r.split) EXCEPT !.log = r.bt.log]
    /\ UNCHANGED <<opened, meta, ref, budget>>

\* Leaf::set(key, 2) on the leaf of page p.
LeafSetCall(p, key) ==
    /\ Live
    /\ last.op = "none"
    /\ p \in 0..(Len(pages) - 1)
    /\ pages[p + 1].tag = TagLeaf
    /\ NodeCall("Leaf::set", p, key, LeafSet(BT, load_node(BT, p), key, 2))

\* Internal::set(key, 2) on the root.
InternalSetCall(key) ==
    /\ Live
    /\ last.op = "none"
    /\ NodeCall("Internal::set", root_page_nr, key,
                InternalSet(BT, load_node(BT, root_page_nr), key, 2, 0))

\* get_child_node_info(key) on the root; last.ret is the ChildNodeInfo.
ChildInfoCall(key) ==
    /\ Live
    /\ last.op = "none"
    /\ last' = Called("get_child_node_info", key, root_page_nr,
                      Some(get_child_node_info(load_node(BT, root_page_nr), key)))
    /\ UNCHANGED <<pages, node_count, entry_count, root_page_nr, free_pages, max_key_count,
                   split_at, key_size, value_size, status, opened, meta, ref, budget>>

NextN ==
    \/ \E p \in 0..(Mkc + 2), k \in CombKeys : LeafSetCall(p, k)
    \/ \E k \in CombKeys : InternalSetCall(k)
    \/ \E k \in CombKeys : ChildInfoCall(k)

SpecN == InitN /\ [][NextN]_vars

\* ---------------------------------------------------------------- long histories

\* A history of SpecD is made of at most MaxDeep calls, each either set of
\* the key following the largest stored one or remove of the smallest
\* stored key: trees of three levels that then shrink from the left.
InitD == NewTree /\ budget = [fill |-> 0, ops |-> 0, bulk |-> MaxDeep, drops |-> 0]

MinStored == CHOOSE k \in Stored : \A j \in Stored : k <= j

\* The keys above every stored key.
NextKeys == {k \in Keys : \A j \in Stored : j < k}

\* set(key following the stored ones, 1)
DeepSet ==
    /\ Live
    /\ budget.bulk > 0
    /\ NextKeys # {}
    /\ DoSet(CHOOSE k \in NextKeys : \A j \in NextKeys : k <= j, 1)
    /\ budget' = [budget EXCEPT !.bulk = @ - 1]

\* remove(smallest stored key)
DeepRemove ==
    /\ Live
    /\ budget.bulk > 0
    /\ Stored # {}
    /\ DoRemove(MinStored, TRUE)
    /\ budget' = [budget EXCEPT !.bulk = @ - 1]

NextD ==
    \/ DeepSet
    \/ DeepRemove

SpecD == InitD /\ [][NextD]_vars

\* ---------------------------------------------------------------- observers

\* btree.get(key) in the current state
Get(key) == BTreeGet(BT, key)

Range(seq) == {seq[j] : j \in 1..Len(seq)}

PageNrs == 0..(Len(pages) - 1)

IsLeafPage(p) == pages[p + 1].tag = TagLeaf

\* The pages an internal node names as children.
ChildrenOf(p) == IF IsLeafPage(p) THEN {} ELSE Range(pages[p + 1].entries) \cap PageNrs

\* The pages a descent from the pages of `frontier` can load.
RECURSIVE ReachFrom(_, _)
ReachFrom(frontier, seen) ==
    IF frontier = {} THEN seen
    ELSE ReachFrom((UNION {ChildrenOf(p) : p \in frontier}) \ (seen \cup frontier),
                   seen \cup frontier)

Reach(p) == ReachFrom({p} \cap PageNrs, {})

\* The nodes of the tree: what a descent from root_page_nr can load.
LivePages == Reach(root_page_nr)

LiveLeaves == {p \in LivePages : IsLeafPage(p)}

LiveInternals == LivePages \ LiveLeaves

\* The keys stored in the leaves below (or at) page p.
SubtreeKeys(p) == UNION {Range(pages[q + 1].keys) : q \in {r \in Reach(p) : IsLeafPage(r)}}

\* BTree::keys / BTNode::dump_leafs: start at page 0, take the leaf's keys,
\* follow next until None.  A walk longer than the file has pages never ends.
RECURSIVE WalkLeaves(_, _, _)
WalkLeaves(page_nr, seen, acc) ==
    IF ~IsSome(page_nr) THEN [status |-> "ok", keys |-> acc, leaves |-> seen]
    ELSE IF Unwrap(page_nr) \notin PageNrs
    THEN [status |-> "io", keys |-> acc, leaves |-> seen]
    ELSE IF ~IsLeafPage(Unwrap(page_nr))
    THEN [status |-> "panic", keys |-> acc, leaves |-> seen]
    ELSE IF Len(seen) > Len(pages)
    THEN [status |-> "overflow", keys |-> acc, leaves |-> seen]
    ELSE WalkLeaves(pages[Unwrap(page_nr) + 1].next, Append(seen, Unwrap(page_nr)),
                    acc \o pages[Unwrap(page_nr) + 1].keys)

IterKeys == WalkLeaves(Some(0), <<>>, <<>>)

\* The sum of f over a set of pages.
RECURSIVE SumKeys(_)
SumKeys(S) ==
    IF S = {} THEN 0
    ELSE LET p == CHOOSE q \in S : TRUE
         IN  Len(pages[p + 1].keys) + SumKeys(S \ {p})

\* ---------------------------------------------------------------- claims

\* C1: after any sequence of set and remove calls that all returned, get(k)
\* returns what the reference map holds for k, for every key k.
C1_GetMatchesReference ==
    Live => \A k \in Keys : Get(k) = [status |-> "ok", value |-> ref[k]]

\* C2: remove(k) returns Some(v) exactly when the reference map held k with
\* value v just before the call, None otherwise, and len() drops by one
\* exactly when Some is returned.
C2_RemoveReturnsReference ==
    (Live /\ last.op = "remove") =>
        /\ last.ret = last.had
        /\ entry_count = last.len - (IF IsSome(last.ret) THEN 1 ELSE 0)

\* C3: set(k, v1) followed by set(k, v2): the second call returns Some(v1),
\* get(k) then returns Some(v2), and the second call leaves len() and the
\* number of nodes unchanged.
C3_Overwrite ==
    [][(last.op = "set" /\ last'.op = "set" /\ last'.key = last.key /\ status' = "ok") =>
          /\ last'.ret = Some(last.value)
          /\ Get(last.key)' = [status |-> "ok", value |-> Some(last'.value)]
          /\ entry_count' = entry_count
          /\ node_count' = node_count]_vars

\* C4: iterating keys() (from page 0 along next) yields the keys in strictly
\* ascending order, without duplicates, and exactly len() of them.
C4_KeysIteration ==
    (Live /\ pages # <<>>) =>
        /\ IterKeys.status = "ok"
        /\ IsSorted(IterKeys.keys)
        /\ Len(IterKeys.keys) = entry_count

\* C5: dropping the tree and opening the directory again leaves get(k)
\* unchanged for every key k: in every state between a drop and the open
\* that follows, the tree open() builds answers get as the dropped tree did.
C5_ReopenKeepsGet ==
    (~opened /\ status = "ok") =>
        \A k \in Keys : BTreeGet(open(meta, pages), k) = Get(k)

\* C6: len() of the reopened tree equals len() just before the drop.
C6_ReopenKeepsLen ==
    (~opened /\ status = "ok") => len(open(meta, pages)) = entry_count

\* C7: entry_count equals the number of (key, value) pairs in the leaves
\* reachable from the root, and set increments it exactly when it replaced
\* no prior value.
C7_EntryCount ==
    Live =>
        /\ entry_count = SumKeys(LiveLeaves)
        /\ last.op = "set" =>
              entry_count = last.len + (IF IsSome(last.ret) THEN 0 ELSE 1)

\* C8: for every internal node and every index i, every key stored below
\* children[i] is < keys[i] and every key stored below children[i+1] is >= keys[i].
C8_RoutingOrder ==
    Live =>
        \A p \in LiveInternals :
            \A i \in 1..Len(pages[p + 1].keys) :
                i + 1 <= Len(pages[p + 1].entries) =>
                    /\ \A k \in SubtreeKeys(pages[p + 1].entries[i]) :
                          k < pages[p + 1].keys[i]
                    /\ \A k \in SubtreeKeys(pages[p + 1].entries[i + 1]) :
                          k >= pages[p + 1].keys[i]

\* C9: no key is stored in two different leaves, among the leaves reachable
\* from the root and the leaves on the sibling chain.
C9_KeyInOneLeaf ==
    Live =>
        \A p, q \in LiveLeaves \cup {x \in Range(IterKeys.leaves) : x \in PageNrs} :
            p # q => Range(pages[p + 1].keys) \cap Range(pages[q + 1].keys) = {}

\* C10: the keys array of every live node is strictly ascending.
C10_KeysAscending ==
    Live => \A p \in LivePages : IsSorted(pages[p + 1].keys)

\* The leftmost leaf below (or at) page p: follow children[0] down.  -1 when
\* the descent leaves the file or does not end.
RECURSIVE LeftmostLeaf(_, _)
LeftmostLeaf(p, fuel) ==
    IF p \notin PageNrs \/ fuel < 0 THEN -1
    ELSE IF IsLeafPage(p) THEN p
    ELSE IF pages[p + 1].entries = <<>> THEN -1
    ELSE LeftmostLeaf(pages[p + 1].entries[1], fuel - 1)

\* The first key of the leftmost leaf below page p, as an Option.
FirstKeyBelow(p) ==
    IF LeftmostLeaf(p, Len(pages)) = -1 THEN None
    ELSE IF pages[LeftmostLeaf(p, Len(pages)) + 1].keys = <<>> THEN None
    ELSE Some(pages[LeftmostLeaf(p, Len(pages)) + 1].keys[1])

\* C11: for every internal node and every index i, keys[i] equals the first
\* key of the leftmost leaf reachable via children[i+1].
C11_SeparatorKey ==
    Live =>
        \A p \in LiveInternals :
            \A i \in 1..Len(pages[p + 1].keys) :
                i + 1 <= Len(pages[p + 1].entries) =>
                    FirstKeyBelow(pages[p + 1].entries[i + 1]) = Some(pages[p + 1].keys[i])

\* C12: after every completed set or remove, every non-root node has
\* keys.len() >= split_at - 1.
C12_MinOccupancy ==
    Live =>
        \A p \in LivePages \ {root_page_nr} : Len(pages[p + 1].keys) >= split_at - 1

\* C13: after every completed set or remove, every node has
\* keys.len() <= max_key_count.
C13_MaxOccupancy ==
    Live => \A p \in LivePages : Len(pages[p + 1].keys) <= max_key_count

\* The depths (root = 0) at which a descent from page p, itself at depth d,
\* meets a leaf; -1 stands for a descent that leaves the file or does not end.
RECURSIVE LeafDepths(_, _)
LeafDepths(p, d) ==
    IF p \notin PageNrs \/ d > Len(pages) THEN {-1}
    ELSE IF IsLeafPage(p) THEN {d}
    ELSE UNION {LeafDepths(pages[p + 1].entries[j], d + 1) :
                   j \in 1..Len(pages[p + 1].entries)}

\* C14: all leaves reachable from the root are at the same depth.
C14_LeavesSameDepth ==
    (Live /\ entry_count > 0) => Cardinality(LeafDepths(root_page_nr, 0)) <= 1

\* The walk along next from the leftmost leaf below the root.
ChainFromFirstLeaf == WalkLeaves(Some(LeftmostLeaf(root_page_nr, Len(pages))), <<>>, <<>>)

\* C15: following next from the first leaf visits every leaf reachable from
\* the root exactly once, in ascending key order, and ends at next = None.
C15_SiblingChain ==
    (Live /\ entry_count > 0) =>
        /\ ChainFromFirstLeaf.status = "ok"
        /\ Range(ChainFromFirstLeaf.leaves) = LiveLeaves
        /\ Len(ChainFromFirstLeaf.leaves) = Cardinality(LiveLeaves)
        /\ IsSorted(ChainFromFirstLeaf.keys)

\* C16: every internal node has exactly keys.len() + 1 children and every
\* leaf has as many values as keys.
C16_NodeShape ==
    Live =>
        \A p \in LivePages :
            IF IsLeafPage(p)
            THEN Len(pages[p + 1].entries) = Len(pages[p + 1].keys)
            ELSE Len(pages[p + 1].entries) = Len(pages[p + 1].keys) + 1

\* An internal node was split by the sets, and the last call was a remove
\* that took a page out of an internal node (remove_page) and left a tree of
\* at least two internal nodes.
C16_ShapeAfterSplitAndMerge ==
    /\ Live
    /\ last.op = "remove"
    /\ IsSome(last.ret)
    /\ node_count < last.node_count
    /\ Cardinality(LiveInternals) >= 2
    /\ C16_NodeShape

\* The page numbers the call that led to the next state was handed by
\* next_page_nr: node_count before the call, and the following ones.
Allocated == IF node_count' > node_count THEN node_count..(node_count' - 1) ELSE {}

AllocatorFresh ==
    (Live /\ status' = "ok" /\ last'.op = "set") => Allocated \cap LivePages = {}

\* C17: a page number next_page_nr returns to set is not the page number of
\* a node reachable from the root at that moment.
C17_AllocatorFreshness == [][AllocatorFresh]_vars

\* The page numbers a live node names: its children, or its next pointer.
ReferencedBy(p) == IF IsLeafPage(p) THEN Range(pages[p + 1].next) ELSE Range(pages[p + 1].entries)

\* C18: no page number in free_pages is reachable from the root, or named as
\* a child or as a next pointer by a node reachable from the root.
C18_FreeListSound ==
    Live =>
        \A f \in Range(free_pages) :
            /\ f \notin LivePages
            /\ \A p \in LivePages : f \notin ReferencedBy(p)

\* C19: on a non-empty tree node_count is the number of nodes reachable from
\* the root.
C19_NodeCount == (Live /\ entry_count > 0) => node_count = Cardinality(LivePages)

\* The leaves reachable from the root that hold the smallest key of the tree.
SmallestKeyLeaves ==
    {p \in LiveLeaves :
        \E k \in Range(pages[p + 1].keys) :
            \A q \in LiveLeaves : \A j \in Range(pages[q + 1].keys) : k <= j}

\* C20: whenever len() > 0, the leaf holding the smallest key is stored at
\* page 0.
C20_FirstLeafIsPageZero == (Live /\ entry_count > 0) => SmallestKeyLeaves = {0}

\* C21: for all key and value sizes with max_key_count >= 1, a full leaf with
\* a next pointer and a full internal node serialize to at most PAGE_SIZE
\* bytes, and the assertion of store_node does not fail.
C21_PageFit ==
    (max_key_count >= 1 /\ last.op = "store_node") =>
        /\ Unwrap(last.ret) <= PAGE_SIZE
        /\ status # "panic"

\* C22: load_node of a page whose tag byte is neither 0 nor 1 returns
\* InvalidFileFormat and no node; tag 0 yields an internal node, tag 1 a leaf.
C22_TagDispatch ==
    last.op = "load_node" =>
        IF pages[last.key + 1].tag \in {0, 1}
        THEN status = "ok" /\ last.ret = Some(pages[last.key + 1].tag)
        ELSE status = "InvalidFileFormat" /\ last.ret = None

C22_DamagedPageRead ==
    /\ last.op = "load_node"
    /\ pages[last.key + 1].tag \notin {0, 1}
    /\ status = "InvalidFileFormat"

\* C23: open() of a directory whose meta file carries another magic header
\* fails with InvalidFileFormat and returns no tree.
C23_MagicChecked ==
    (last.op = "open" /\ IsSome(meta) /\ Unwrap(meta).magic_header # "%bptree%") =>
        status = "InvalidFileFormat" /\ ~opened

\* C24: on a tree with len() == 0, fresh or emptied by removes, get(k) returns
\* None for every key without error, and remove(k) returns None without
\* error and leaves len() at 0.
C24_EmptyTree ==
    /\ (Live /\ entry_count = 0) =>
           \A k \in Keys : Get(k) = [status |-> "ok", value |-> None]
    /\ (opened /\ last.op = "remove" /\ last.len = 0) =>
           last.ret = None /\ status = "ok" /\ entry_count = 0

\* remove was called on a tree that earlier removes had emptied.
C24_RemoveOnEmptiedTree ==
    /\ Live
    /\ last.op = "remove"
    /\ last.len = 0
    /\ Len(pages) > 0
    /\ \A k \in Keys : Get(k).value = None

\* C25: when set or remove returns, every node the call wrote is on its page:
\* the page file holds, for each write of the call, the bytes written.
C25_WritesOnDisk ==
    (Live /\ last.op \in {"set", "remove"}) =>
        \A i \in 1..Len(last.log) : pages[last.log[i][1] + 1] = last.log[i][2]

\* What Leaf::set did to the leaf of page p when it returned
\* Some((split_key, new_page)), against the leaf as it was before the call.
LeafSplitRight(p, split_key, new_page) ==
    /\ pages'[new_page + 1].keys # <<>>
    /\ pages'[new_page + 1].keys[1] = split_key
    /\ \A i \in 1..Len(pages'[p + 1].keys) : pages'[p + 1].keys[i] < split_key
    /\ pages'[p + 1].next = Some(new_page)
    /\ pages'[new_page + 1].next = pages[p + 1].next

\* C26: when Leaf::set splits a full leaf, the split key it returns is the
\* smallest key of the new right leaf, every key left in the original leaf is
\* below it, the original leaf's next is the new page and the new leaf's next
\* is the original leaf's previous next.
C26_LeafSplit ==
    [][(last'.op = "Leaf::set" /\ IsSome(last'.ret)) =>
          LeafSplitRight(last'.value, last'.ret[1][1], last'.ret[1][2])]_vars

\* The two halves Internal::set left of the full node of page p when it
\* returned Some((middle_key, new_page)); child is the page its child had
\* split off.
InternalSplitRight(p, middle_key, new_page, child) ==
    /\ Len(pages'[p + 1].entries) = Len(pages'[p + 1].keys) + 1
    /\ Len(pages'[new_page + 1].entries) = Len(pages'[new_page + 1].keys) + 1
    /\ \A i \in 1..Len(pages'[p + 1].keys) : pages'[p + 1].keys[i] < middle_key
    /\ \A i \in 1..Len(pages'[new_page + 1].keys) : pages'[new_page + 1].keys[i] > middle_key
    /\ child \in Range(pages'[p + 1].entries) \cup Range(pages'[new_page + 1].entries)

\* C27: a full internal node that receives a promoted (split_key, new_page)
\* at any sorted index completes the insertion without a panic, and both
\* halves end with children.len() = keys.len() + 1 and with their keys on
\* either side of the middle key, one of them holding the new page.
C27_InternalSplit ==
    [][(/\ Live
        /\ Len(pages[root_page_nr + 1].keys) = max_key_count
        /\ Get(last'.key).value = None
        /\ last'.op = "Internal::set") =>
          /\ status' = "ok"
          /\ IsSome(last'.ret)
          /\ InternalSplitRight(root_page_nr, last'.ret[1][1], last'.ret[1][2], node_count)]_vars

\* The number of levels below the root (the deepest leaf counts; -1 when a
\* descent leaves the file or does not end).
TreeHeight ==
    CHOOSE d \in LeafDepths(root_page_nr, 0) : \A e \in LeafDepths(root_page_nr, 0) : e <= d

\* create_new_root ran: the root is a node of one key over the old root and
\* one more page.
GrewRoot ==
    /\ ~IsLeafPage(root_page_nr)'
    /\ Len(pages'[root_page_nr' + 1].keys) = 1
    /\ Len(pages'[root_page_nr' + 1].entries) = 2
    /\ pages'[root_page_nr' + 1].entries[1] = root_page_nr
    /\ pages'[root_page_nr' + 1].entries[2] \in node_count..(node_count' - 1)
    /\ root_page_nr' \in node_count..(node_count' - 1)

\* C28: a set that splits the root allocates a new root holding one key and
\* the two children [old_root, new_page] and points root_page_nr at it; the
\* height grows by exactly one then, and stays as it is in every other set.
C28_RootGrowth ==
    [][(Live /\ entry_count > 0 /\ last'.op = "set" /\ status' = "ok") =>
          IF root_page_nr' # root_page_nr
          THEN GrewRoot /\ TreeHeight' = TreeHeight + 1
          ELSE TreeHeight' = TreeHeight]_vars

\* C29: after a completed remove the root is not an internal node without
\* keys; when the remove moved the root, the new root is the one child left
\* in the old root and the old root's page is reclaimed.
C29_RootCollapse ==
    (Live /\ last.op = "remove" /\ entry_count > 0) =>
        /\ ~(~IsLeafPage(root_page_nr) /\ pages[root_page_nr + 1].keys = <<>>)
        /\ root_page_nr # last.root_page_nr =>
               /\ pages[last.root_page_nr + 1].entries = <<root_page_nr>>
               /\ last.root_page_nr \in Range(free_pages)

\* C30: delete propagation. Whenever a child reports a reclaimed page, the parent
\* finds that page among its children and drops it with the key left of it: no
\* remove ends in the "deleted page should be present" panic.
C30_DeletedPageFound ==
    status # DeletedPageMissing

\* The 0-based position of the child a key belongs to: the number of keys <= key.
ChildIndex(self, key) == Cardinality({j \in 1..Len(self.keys) : self.keys[j] <= key})

C32_ParentIndexInRange ==
    /\ status # ParentKeyMissing
    /\ Live =>
           \A p \in LiveInternals : \A k \in Keys :
               LET parent == load_node(BT, p)
                   info   == get_child_node_info(parent, k)
               IN  /\ IsSome(info.lsibling) => HasKey(parent, info.rparent)
                   /\ IsSome(info.rsibling) => HasKey(parent, info.lparent)

\* A remove that moved a pair between two leaves and rewrote the parent's key:
\* two leaves were stored and no page was reclaimed.
C32_TransferWroteParentKey ==
    /\ Live /\ last.op = "remove" /\ IsSome(last.ret)
    /\ node_count = last.node_count
    /\ Cardinality({i \in 1..Len(last.log) : last.log[i][2].tag = TagLeaf}) = 2

\* C33: the assertions of the leaf merge-right path hold. An underfull non-root
\* leaf without a left sibling under its parent has a right sibling there, and
\* that sibling is the leaf's next: no remove ends in one of the two assertions.
C33_MergeRightAsserts ==
    status # MergeRightAssert

\* The page of the internal node directly above the leaf a key is routed to,
\* or -1 when the root is a leaf or the descent cannot be followed.
RECURSIVE LeafParent(_, _, _)
LeafParent(p, key, fuel) ==
    IF fuel = 0 \/ p \notin PageNrs THEN -1
    ELSE IF IsLeafPage(p) \/ ~CanRoute(load_node(BT, p), key) THEN -1
    ELSE LET c == InternalGet(load_node(BT, p), key)
         IN  IF c \notin PageNrs THEN -1
             ELSE IF IsLeafPage(c) THEN p
             ELSE LeafParent(c, key, fuel - 1)

\* What the rebalance of the leaf under parent page P has to leave behind when
\* remove(key) takes the leaf below split_at keys; primed variables are the
\* state after the call.
LeafRebalanceStep(P, key) ==
    LET parent == load_node(BT, P)
        c      == ChildIndex(parent, key)
        L      == At(parent.entries, c)
        self   == load_node(BT, L)
        rest   == RemoveAt(self.keys, BinarySearch(self.keys, key).i)
        hasL   == c > 0
        hasR   == c + 1 < Len(parent.entries)
        lpage  == At(parent.entries, c - 1)
        rpage  == At(parent.entries, c + 1)
        lkeys  == pages[lpage + 1].keys
        rkeys  == pages[rpage + 1].keys
        fromL  == hasL /\ Len(lkeys) > split_at
        fromR  == ~fromL /\ hasR /\ Len(rkeys) > split_at
        reclaimed(q) == /\ Len(free_pages') > Len(free_pages)
                        /\ SubSeq(free_pages', 1, Len(free_pages) + 1) = Append(free_pages, q)
    IN  (BinarySearch(self.keys, key).ok /\ Len(rest) < split_at) =>
            IF fromL
            THEN /\ free_pages' = free_pages
                 /\ pages'[lpage + 1].keys = Init_(lkeys)
                 /\ pages'[L + 1].keys = <<Last(lkeys)>> \o rest
                 /\ At(pages'[P + 1].keys, c - 1) = pages'[L + 1].keys[1]
            ELSE IF fromR
            THEN /\ free_pages' = free_pages
                 /\ pages'[rpage + 1].keys = Tail(rkeys)
                 /\ pages'[L + 1].keys = Append(rest, rkeys[1])
                 /\ At(pages'[P + 1].keys, c) = pages'[rpage + 1].keys[1]
            ELSE IF hasL
            THEN /\ reclaimed(L)
                 /\ pages'[lpage + 1].keys = lkeys \o rest
            ELSE /\ hasR
                 /\ reclaimed(rpage)
                 /\ pages'[L + 1].keys = rest \o rkeys

\* C34: leaf rebalance order. A remove that leaves a non-root leaf with fewer than
\* split_at keys takes one step: a pair from the left sibling if that has more
\* than split_at keys, else from the right sibling if that has, else the leaf
\* joins its left sibling, else the right sibling joins the leaf. A transfer
\* reclaims no page and sets the parent's separator to the first key of the
\* right-hand leaf; a merge reclaims the page of the right-hand leaf.
C34_LeafRebalanceOrder ==
    [][(Live /\ last'.op = "remove" /\ LeafParent(root_page_nr, last'.key, Len(pages)) # -1)
           => LeafRebalanceStep(LeafParent(root_page_nr, last'.key, Len(pages)), last'.key)]_vars

\* The internal pages a call stored, read from its write log.
InternalsStored(log) == {log[i][1] : i \in {j \in 1..Len(log) : log[j][2].tag = TagInternal}}

\* A remove during which an internal node took a key and a child from a sibling:
\* one page (a leaf) was reclaimed and, besides the TreeHeight internal nodes on
\* the path, the donor was stored.
InternalTransferStep ==
    /\ Live /\ last'.op = "remove" /\ status' = "ok"
    /\ Len(free_pages') = Len(free_pages) + 1
    /\ root_page_nr' = root_page_nr
    /\ Cardinality(InternalsStored(last'.log)) = TreeHeight + 1

\* C35: an internal transfer preserves routing. If the keys of every internal
\* node separate its subtrees before the remove, they do so after an internal
\* node took a key and a child from a sibling, and get finds every stored key.
C35_InternalTransfer ==
    [][(InternalTransferStep /\ C8_RoutingOrder /\ \A k \in Stored : Get(k).value # None)
           => /\ C8_RoutingOrder'
              /\ \A k \in Stored' : Get(k)'.value # None]_vars

\* The internal node on page P as remove(key) leaves it when the leaf below it
\* is merged with a sibling: the reclaimed leaf and the key left of it are gone.
\* None when the remove merges no leaf under P.
ParentAfterLeafMerge(P, key) ==
    LET parent == load_node(BT, P)
        c      == ChildIndex(parent, key)
        self   == load_node(BT, At(parent.entries, c))
        bs     == BinarySearch(self.keys, key)
        hasL   == c > 0
        hasR   == c + 1 < Len(parent.entries)
        fromL  == hasL /\ Len(pages[At(parent.entries, c - 1) + 1].keys) > split_at
        fromR  == hasR /\ Len(pages[At(parent.entries, c + 1) + 1].keys) > split_at
        j      == IF hasL THEN c ELSE c + 1
    IN  IF bs.ok /\ Len(self.keys) - 1 < split_at /\ ~fromL /\ ~fromR /\ (hasL \/ hasR)
        THEN Some([parent EXCEPT !.keys = RemoveAt(@, j - 1), !.entries = RemoveAt(@, j)])
        ELSE None

\* What the merge of the internal node on page P (already without the reclaimed
\* leaf: node p1) with a sibling under the root has to leave behind.
InternalMergeStep(P, p1, key) ==
    LET G     == load_node(BT, root_page_nr)
        d     == ChildIndex(G, key)
        hasL  == d > 0
        hasR  == d + 1 < Len(G.entries)
        lpage == At(G.entries, d - 1)
        rpage == At(G.entries, d + 1)
        lnode == load_node(BT, lpage)
        rnode == load_node(BT, rpage)
    IN  IF hasL
        THEN /\ pages'[lpage + 1].keys = Append(lnode.keys, At(G.keys, d - 1)) \o p1.keys
             /\ pages'[lpage + 1].entries = lnode.entries \o p1.entries
             /\ free_pages'[Len(free_pages) + 2] = P
        ELSE /\ hasR
             /\ pages'[P + 1].keys = Append(p1.keys, At(G.keys, d)) \o rnode.keys
             /\ pages'[P + 1].entries = p1.entries \o rnode.entries
             /\ free_pages'[Len(free_pages) + 2] = rpage

\* A remove in a tree of three levels that reclaims a leaf and then an internal
\* node.
InternalMerged(P, key) ==
    /\ Live /\ last'.op = "remove"
    /\ TreeHeight = 2
    /\ P # -1 /\ P # root_page_nr
    /\ IsSome(ParentAfterLeafMerge(P, key))
    /\ Len(free_pages') >= Len(free_pages) + 2

\* C36: internal merge. When two internal siblings under the separator
\* parent.keys[s] are merged, the left node survives with its keys, then
\* parent.keys[s], then the right node's keys, and its children followed by the
\* right node's children; the right node's page is the one reclaimed.
C36_InternalMerge ==
    [][InternalMerged(LeafParent(root_page_nr, last'.key, Len(pages)), last'.key) =>
           InternalMergeStep(LeafParent(root_page_nr, last'.key, Len(pages)),
                             Unwrap(ParentAfterLeafMerge(
                                 LeafParent(root_page_nr, last'.key, Len(pages)), last'.key)),
                             last'.key)]_vars

\* A remove that reclaimed a leaf and an internal node: the tree has two pages
\* fewer and still three levels, or three pages fewer and a new root of two
\* levels.
C36_InternalNodeReclaimed ==
    /\ Live /\ last.op = "remove"
    /\ \/ /\ last.node_count - node_count = 2
          /\ root_page_nr = last.root_page_nr
          /\ TreeHeight = 2
       \/ /\ last.node_count - node_count = 3
          /\ root_page_nr # last.root_page_nr
          /\ TreeHeight = 1

ReferencesTo(q) ==
    {<<p, j>> \in LiveInternals \X (1..(Mkc + 2)) :
        j <= Len(pages[p + 1].entries) /\ pages[p + 1].entries[j] = q}

\* C38: tree shape. Every page of the tree but the root is named as a child by
\* one internal node, once; the root is named by none.
C38_TreeShape ==
    Live =>
        \A q \in LivePages :
            Cardinality(ReferencesTo(q)) = IF q = root_page_nr THEN 0 ELSE 1

\* ---------------------------------------------------------------- BTree::insert of lib.rs
\* lib.rs has its own nodes (Node { page_nr, keys, entries }, no next pointer)
\* and its own insertion: a descent that collects the internal nodes in
\* node_path and, after a leaf split, a loop that walks node_path upward.

\* Node::split_leaf
split_leaf(self, page_nr, at) ==
    [split_key |-> At(self.keys, at),
     node |-> NewLeaf(page_nr, From(self.keys, at), From(self.entries, at), None),
     self |-> [self EXCEPT !.keys = Upto(@, at), !.entries = Upto(@, at)]]

\* Node::split_internal: the middle key leaves the node, its entry stays left.
split_internal(self, page_nr, at) ==
    [split_key |-> At(self.keys, at),
     node |-> NewInternal(page_nr, From(self.keys, at + 1), From(self.entries, at + 1)),
     self |-> [self EXCEPT !.keys = Upto(@, at), !.entries = Upto(@, at + 1)]]

\* Node::insert
node_insert(self, i, key, value) ==
    [self EXCEPT !.keys = InsertAt(@, i, key), !.entries = InsertAt(@, i, value)]

\* Node::insert_internal
insert_internal(self, i, key, value) ==
    [self EXCEPT !.keys = InsertAt(@, i, key), !.entries = InsertAt(@, i + 1, value)]

\* BTree::split_and_insert, the loop `while let Some(internal_node) = node_path.pop()`:
\* the pair (split_key, page_nr) goes into the last node of node_path; the loop
\* then goes on with the rest of node_path.
RECURSIVE WalkUp(_, _, _, _)
WalkUp(bt, node_path, split_key, page_nr) ==
    IF node_path = <<>> THEN bt
    ELSE
    LET internal_node == Last(node_path)
        j  == BinarySearch(internal_node.keys, split_key).i
        np == next_page_nr(bt)
        sp == split_internal(internal_node, np.page_nr, bt.split_at)
        left  == IF j < bt.split_at
                 THEN insert_internal(sp.self, j, split_key, page_nr) ELSE sp.self
        right == IF j < bt.split_at
                 THEN sp.node ELSE insert_internal(sp.node, j - bt.split_at, split_key, page_nr)
        b1 == IF internal_node.page_nr = bt.root_page_nr
              THEN create_new_root(np.bt, sp.split_key, sp.node.page_nr) ELSE np.bt
    IN  IF BinarySearch(internal_node.keys, split_key).ok THEN Fail(bt, "panic")
        ELSE IF IsFull(internal_node, bt.max_key_count)
        THEN IF j >= bt.split_at /\ j - bt.split_at > Len(sp.node.keys)
             THEN Fail(np.bt, "panic")
             ELSE WalkUp(store_node(store_node(b1, left), right), Init_(node_path),
                         sp.split_key, sp.node.page_nr)
        ELSE WalkUp(store_node(bt, insert_internal(internal_node, j, split_key, page_nr)),
                    Init_(node_path), split_key, internal_node.page_nr)

\* BTree::split_and_insert; i is the insertion point in the full leaf.
split_and_insert(bt, leaf_node, node_path, i, key, value) ==
    LET np == next_page_nr(bt)
        sp == split_leaf(leaf_node, np.page_nr, bt.split_at)
        left  == IF i < bt.split_at THEN node_insert(sp.self, i, key, value) ELSE sp.self
        right == IF i < bt.split_at
                 THEN sp.node ELSE node_insert(sp.node, i - bt.split_at, key, value)
        b1 == IF leaf_node.page_nr = bt.root_page_nr
              THEN create_new_root(np.bt, sp.split_key, sp.node.page_nr) ELSE np.bt
    IN  WalkUp(store_node(store_node(b1, left), right), node_path,
               sp.split_key, sp.node.page_nr)

\* BTree::insert, the descent loop from page_nr with the nodes passed so far.
RECURSIVE InsertFrom(_, _, _, _, _)
InsertFrom(bt, page_nr, node_path, key, value) ==
    LET node == load_node(bt, page_nr)
        bs   == BinarySearch(node.keys, key)
        Counted(b) == [bt |-> IF Ok(b) THEN [b EXCEPT !.entry_count = @ + 1] ELSE b,
                       ret |-> None]
    IN  IF ~CanLoad(bt, page_nr) THEN [bt |-> Fail(bt, "io"), ret |-> None]
        ELSE IF Len(node_path) > Len(bt.pages)
        THEN [bt |-> Fail(bt, "overflow"), ret |-> None]
        ELSE IF node.tag = TagInternal
        THEN IF ~CanRoute(node, key) THEN [bt |-> Fail(bt, "panic"), ret |-> None]
             ELSE InsertFrom(bt, InternalGet(node, key), Append(node_path, node), key, value)
        ELSE IF bs.ok
        THEN [bt |-> store_node(bt, [node EXCEPT !.entries = SetAt(@, bs.i, value)]),
              ret |-> Some(At(node.entries, bs.i))]
        ELSE IF IsFull(node, bt.max_key_count)
        THEN Counted(split_and_insert(bt, node, node_path, bs.i, key, value))
        ELSE Counted(store_node(bt, node_insert(node, bs.i, key, value)))

\* BTree::insert
BTreeInsert(bt, key, value) ==
    IF len(bt) = 0 THEN [bt |-> create_first_root(bt, key, value), ret |-> None]
    ELSE InsertFrom(bt, bt.root_page_nr, <<>>, key, value)

\* SpecI: the histories of Spec with BTree::insert as the only call.
InitI == NewTree /\ budget = [fill |-> MaxFill, ops |-> MaxOps, bulk |-> 0, drops |-> 0]

DoInsert(key, value) ==
    /\ LET Returned(r) ==
               /\ Install(r.bt)
               /\ last' = [Called("insert", key, value, r.ret) EXCEPT !.log = r.bt.log]
       IN  Returned(BTreeInsert(BT, key, value))
    /\ ref' = [ref EXCEPT ![key] = Some(value)]
    /\ UNCHANGED <<opened, meta>>

\* The next call of the ascending fill.
FillInsert ==
    /\ Live
    /\ budget.fill > 0
    /\ budget.ops = MaxOps
    /\ FillStep * (MaxFill - budget.fill + 1) \in Keys
    /\ DoInsert(FillStep * (MaxFill - budget.fill + 1), 1)
    /\ budget' = [budget EXCEPT !.fill = @ - 1]

Insert(key, value) ==
    /\ Live
    /\ budget.ops > 0
    /\ DoInsert(key, value)
    /\ budget' = [budget EXCEPT !.ops = @ - 1]

NextI ==
    \/ FillInsert
    \/ \E k \in Keys : Insert(k, NextVal)

SpecI == InitI /\ [][NextI]_vars

\* The pages insert(key) passes on its way down, the root first.
RECURSIVE DescentPath(_, _, _)
DescentPath(p, key, acc) ==
    IF p \notin PageNrs \/ Len(acc) > Len(pages) THEN acc
    ELSE IF IsLeafPage(p) \/ ~CanRoute(load_node(BT, p), key) THEN Append(acc, p)
    ELSE DescentPath(InternalGet(load_node(BT, p), key), key, Append(acc, p))

\* C39: split propagation stops at the first node that is not full. After an
\* insert, every node of the descent path that lies above a node (leaf or
\* internal) that was not full has the keys and children it had before.
C39_PropagationStops ==
    [][(Live /\ last'.op = "insert" /\ status' = "ok") =>
           LET path == DescentPath(root_page_nr, last'.key, <<>>)
           IN  \A a, b \in 1..Len(path) :
                   (a < b /\ ~IsFull(load_node(BT, path[b]), max_key_count)) =>
                       pages'[path[a] + 1] = pages[path[a] + 1]]_vars

====
